---- MODULE Spec2Model ----
(***************************************************************************)
(* Retrieval-augmented question answering over uploaded documents:         *)
(* src/main.py (single-model /ask/) and src/main_ensemble.py (ensemble     *)
(* /ask/), over the File / FileChunk tables they share.                    *)
(*                                                                         *)
(* A text is a sequence of pieces and a piece is a tuple of strings, so     *)
(* that concatenation, " ".join and f-string interpolation are sequence    *)
(* operations and "contains verbatim" is a real substring test.  A vector  *)
(* is a tuple of integers.                                                 *)
(***************************************************************************)
EXTENDS Integers, Sequences, FiniteSets, TLC

VARIABLES
    api_key,     \* TRUE iff NEBIUS_API_KEY is present in os.environ
    tie_break,   \* the store's consistent order among equidistant rows
    files,       \* File table: sequence of rows, file_id = position
    tasks,       \* file_ids whose background chunk_and_embed has not run yet
    chunks,      \* FileChunk table: set of rows
    req,         \* the /ask/ request being handled (pc = "idle": none)
    key_faults,  \* times "NEBIUS API key not set" was raised
    last,        \* history: the last answer given over the FileChunk table as it is now
    probe        \* last direct call of get_similar_chunks (SpecRetrieval)

vars == <<api_key, tie_break, files, tasks, chunks, req, key_faults, last, probe>>

----------------------------------------------------------------------------
(* Bounds of the model                                                     *)

MaxFiles == 2
MaxRefusals == 2
LongLen == 11
ProbeMaxChunks == 3
ProbeMaxLimit == 2
MaxCoord == 1

(* Program constants                                                       *)

DefaultLimit == 5
SecondLimit == 10
SingleLimit == 10

----------------------------------------------------------------------------
(* Text helpers                                                            *)

Min(a, b) == IF a <= b THEN a ELSE b

\* a string literal as a text of one piece
Lit(s) == << <<s>> >>

\* the strings of a text, piece boundaries dropped
RECURSIVE flat(_)
flat(text) == IF text = <<>> THEN <<>> ELSE Head(text) \o flat(Tail(text))

\* part occurs in text as a contiguous run of pieces
Contains(text, part) ==
    \E i \in 0..(Len(text) - Len(part)) :
        \A j \in 1..Len(part) : text[i + j] = part[j]

IsPrefix(p, s) ==
    /\ Len(p) <= Len(s)
    /\ \A i \in 1..Len(p) : p[i] = s[i]

\* " ".join(texts): the texts in order, one space between neighbours
RECURSIVE joinNoSeparator(_)
joinNoSeparator(texts) ==
    IF texts = <<>> THEN <<>>
    ELSE Head(texts) \o joinNoSeparator(Tail(texts))

RECURSIVE join(_)
join(texts) ==
    IF texts = <<>> THEN <<>>
    ELSE IF Len(texts) = 1 THEN Head(texts)
    ELSE Head(texts) \o Lit(" ") \o join(Tail(texts))

chunk_texts(rows) == [i \in 1..Len(rows) |-> rows[i].chunk_text]

\* context = " ".join(chunk.chunk_text for chunk in similar_chunks)
context_of(rows) == join(chunk_texts(rows))

----------------------------------------------------------------------------
(* Questions and the gateways                                              *)

Q1 == Lit("what are cats?")
Q2 == Lit("do fish swim?")
Questions == {Q1, Q2}

\* client.embeddings.create(...).data[0].embedding for a question: a
\* deterministic gateway, one vector per question text
question_embedding(question) ==
    IF question = Q1 THEN <<0, 0>> ELSE <<3, 0>>

PrimaryModel == "Qwen/Qwen2.5-Coder-32B-Instruct"
SecondaryModel == "meta-llama/Meta-Llama-3.1-405B-Instruct"
FusionModel == "nvidia/Llama-3.1-Nemotron-70B-Instruct-HF"

\* client.chat.completions.create(...).choices[0].message.content: a
\* deterministic gateway; the generated text is one piece, a different one
\* for each model and each pair of messages
completion(model, system, user) ==
    << <<"answer of", model, "to system">> \o flat(system)
           \o <<"and user">> \o flat(user) >>

SystemPrefix ==
    Lit("You are a helpful assistant. Here is the context to use to reply to the user question: ")

\* f"You are a helpful assistant. Here is the context ...: {context}"
system_message(context) == SystemPrefix \o context

final_system_message_no_second_context(context, second_context, primary, secondary) ==
    Lit("You are a helpful assistant. Based on this first context: ") \o context
        \o Lit(" and this second context: ") \o context
        \o Lit(", here is the first possible response: ") \o primary
        \o Lit(" and here is the second possible response: ") \o secondary
        \o Lit(". Based on that, craft a final response to the user question.")

final_system_message(context, second_context, primary, secondary) ==
    Lit("You are a helpful assistant. Based on this first context: ") \o context
        \o Lit(" and this second context: ") \o second_context
        \o Lit(", here is the first possible response: ") \o primary
        \o Lit(" and here is the second possible response: ") \o secondary
        \o Lit(". Based on that, craft a final response to the user question.")

----------------------------------------------------------------------------
(* The fragment store                                                      *)

\* FileChunk.embedding_vector.l2_distance(question_embedding), squared: the
\* square root is increasing, so ORDER BY sees the same order and ties
l2_distance(a, b) ==
    (a[1] - b[1]) * (a[1] - b[1]) + (a[2] - b[2]) * (a[2] - b[2])

TieBreaks == {"asc", "desc"}

\* the order the store keeps among rows at the same distance
tie_before(a, b, tb) ==
    IF tb = "asc" THEN a.chunk_id < b.chunk_id ELSE a.chunk_id > b.chunk_id

sorts_before(a, b, q, tb) ==
    \/ l2_distance(a.embedding_vector, q) < l2_distance(b.embedding_vector, q)
    \/ /\ l2_distance(a.embedding_vector, q) = l2_distance(b.embedding_vector, q)
       /\ tie_before(a, b, tb)

\* ORDER BY embedding_vector <-> q
RECURSIVE order_by(_, _, _)
order_by(rows, q, tb) ==
    IF rows = {} THEN <<>>
    ELSE LET first == CHOOSE x \in rows :
                        \A y \in rows \ {x} : sorts_before(x, y, q, tb)
         IN <<first>> \o order_by(rows \ {first}, q, tb)

\* LIMIT n
limit_to(rows, n) == SubSeq(rows, 1, Min(n, Len(rows)))

similar_chunks_query_any_file(table, file_id, q, limit, tb) ==
    limit_to(order_by(table, q, tb), limit)

similar_chunks_query_limit_order(table, file_id, q, limit, tb) ==
    limit_to(order_by({c \in table : c.file_id = file_id}, q,
                      IF limit > DefaultLimit THEN "desc" ELSE tb), limit)

\* select(FileChunk).where(FileChunk.file_id == file_id)
\*     .order_by(FileChunk.embedding_vector.l2_distance(q)).limit(limit)
similar_chunks_query(table, file_id, q, limit, tb) ==
    limit_to(order_by({c \in table : c.file_id = file_id}, q, tb), limit)

----------------------------------------------------------------------------
(* Ingestion: upload_file and the background chunk_and_embed               *)

\* no earlier answer to compare with
NoLast == [app |-> "none", document_id |-> 0, question |-> <<>>, response |-> <<>>]

allowed_extensions == {"txt", "pdf"}

\* FileParser(...).parse() followed by TextProcessor.chunk_and_embed: the
\* fragments (text, vector) a file's text is cut into
D1Fragments ==
    << [chunk_text |-> Lit("cats are mammals"), embedding_vector |-> <<1, 0>>],
       [chunk_text |-> Lit("dogs are loyal"),   embedding_vector |-> <<1, 1>>],
       [chunk_text |-> Lit("fish swim"),        embedding_vector |-> <<2, 2>>] >>

LongFragments ==
    [i \in 1..LongLen |->
        [chunk_text |-> << <<"sentence", ToString(i)>> >>,
         embedding_vector |-> <<i % 4, i % 3>>]]

\* file.filename.split('.') and what the file holds
UploadFiles ==
    { [filename |-> <<"cats", "txt">>,  fragments |-> D1Fragments],
      [filename |-> <<"long", "pdf">>,  fragments |-> LongFragments],
      [filename |-> <<"notes", "md">>,  fragments |-> <<>>] }

\* POST /uploadfile/: the File row is committed and the chunk+embed task is
\* queued; the response is sent before the task runs
upload_file(file) ==
    /\ Len(files) < MaxFiles
    /\ file.filename[Len(file.filename)] \in allowed_extensions
    /\ files' = Append(files, [file_id |-> Len(files) + 1,
                               file_name |-> file.filename,
                               fragments |-> file.fragments])
    /\ tasks' = tasks \cup {Len(files) + 1}
    /\ UNCHANGED <<api_key, tie_break, chunks, req, key_faults, last, probe>>

\* TextProcessor.chunk_and_embed, run by BackgroundTasks after the response:
\* one FileChunk row per fragment of the file, visible when the step completes
chunk_and_embed(file_id) ==
    /\ file_id \in tasks
    /\ LET frs  == files[file_id].fragments
           base == Cardinality(chunks)
       IN chunks' = chunks \cup
              { [chunk_id |-> base + i, file_id |-> file_id,
                 chunk_text |-> frs[i].chunk_text,
                 embedding_vector |-> frs[i].embedding_vector] : i \in 1..Len(frs) }
    /\ tasks' = tasks \ {file_id}
    /\ last' = IF chunks' = chunks THEN last ELSE NoLast
    /\ UNCHANGED <<api_key, tie_break, files, req, key_faults, probe>>

----------------------------------------------------------------------------
(* Requests                                                                *)

KeyNotSet == "NEBIUS API key not set"
EmbeddingError == "embedding call failed"
StoreError == "store query failed"
CompletionError == "completion call failed"

EmbeddingModel == "BAAI/bge-en-icl"

\* one call of a gateway or of the store, as the request made it
\* (rows: what a query returned; result: what a completion returned)
Call(op, model, limit, ok, system, user, rows, result) ==
    [op |-> op, model |-> model, limit |-> limit, ok |-> ok,
     system |-> system, user |-> user, rows |-> rows, result |-> result]

IdleReq ==
    [app |-> "none", pc |-> "idle", document_id |-> 0, question |-> <<>>,
     similar_chunks |-> <<>>, second_similar_chunks |-> <<>>,
     primary_response |-> <<>>, secondary_response |-> <<>>,
     final_response |-> <<>>, trace |-> <<>>,
     status |-> "none", response |-> <<>>, detail |-> "", start_chunks |-> {}]

\* raise HTTPException(status_code=500, detail=...): the request ends, no answer
raised(r, trace, detail) ==
    [r EXCEPT !.pc = "done", !.status = "error", !.detail = detail,
              !.trace = trace, !.response = <<>>]

Outcomes == {"ok", "embedding_error", "store_error"}

get_similar_chunks_swallow(table, tb, trace, file_id, question, limit, outcome) ==
    LET embedded == Append(trace, Call("embed", EmbeddingModel, 0,
                                       outcome # "embedding_error", <<>>, question,
                                       <<>>, <<>>))
        q        == question_embedding(question)
        rows     == similar_chunks_query(table, file_id, q, limit, tb)
    IN  IF outcome = "embedding_error"
        THEN [raised |-> FALSE, detail |-> "", rows |-> <<>>, trace |-> embedded]
        ELSE IF outcome = "store_error"
        THEN [raised |-> FALSE, detail |-> "", rows |-> <<>>,
              trace |-> Append(embedded, Call("query", "", limit, FALSE, <<>>, question,
                                            <<>>, <<>>))]
        ELSE [raised |-> FALSE, detail |-> "", rows |-> rows,
              trace |-> Append(embedded, Call("query", "", limit, TRUE, <<>>, question,
                                              rows, <<>>))]

\* get_similar_chunks(file_id, question, db, limit): one embedding call, then
\* one store query; any exception becomes HTTPException(500)
get_similar_chunks(table, tb, trace, file_id, question, limit, outcome) ==
    LET embedded == Append(trace, Call("embed", EmbeddingModel, 0,
                                       outcome # "embedding_error", <<>>, question,
                                       <<>>, <<>>))
        q        == question_embedding(question)
        rows     == similar_chunks_query(table, file_id, q, limit, tb)
    IN  IF outcome = "embedding_error"
        THEN [raised |-> TRUE, detail |-> EmbeddingError, rows |-> <<>>,
              trace |-> embedded]
        ELSE IF outcome = "store_error"
        THEN [raised |-> TRUE, detail |-> StoreError, rows |-> <<>>,
              trace |-> Append(embedded, Call("query", "", limit, FALSE, <<>>, question,
                                            <<>>, <<>>))]
        ELSE [raised |-> FALSE, detail |-> "", rows |-> rows,
              trace |-> Append(embedded, Call("query", "", limit, TRUE, <<>>, question,
                                              rows, <<>>))]

Documents == 1..MaxFiles

\* the request record after the credential check of ask_question
accepted(app, document_id, question, table) ==
    [IdleReq EXCEPT !.app = app, !.pc = "retrieve", !.document_id = document_id,
                    !.question = question, !.status = "running",
                    !.start_chunks = table]

ask_question_unchecked(app, document_id, question) ==
    /\ req.pc = "idle"
    /\ req' = accepted(app, document_id, question, chunks)
    /\ UNCHANGED <<api_key, tie_break, files, tasks, chunks, key_faults, last, probe>>

\* POST /ask/, entry: if os.environ.get("NEBIUS_API_KEY") is None: raise ...
ask_question(app, document_id, question) ==
    /\ req.pc = "idle"
    /\ api_key \/ key_faults < MaxRefusals
    /\ IF api_key
       THEN /\ req' = accepted(app, document_id, question, chunks)
            /\ UNCHANGED key_faults
       ELSE /\ req' = raised(accepted(app, document_id, question, chunks),
                             <<>>, KeyNotSet)
            /\ key_faults' = key_faults + 1
    /\ UNCHANGED <<api_key, tie_break, files, tasks, chunks, last, probe>>

UnchangedByAsk == UNCHANGED <<api_key, tie_break, files, tasks, chunks,
                              key_faults, last, probe>>

(* src/main.py                                                             *)

single_retrieve_consuming ==
    /\ req.app = "single" /\ req.pc = "retrieve"
    /\ \E outcome \in Outcomes :
         LET g == get_similar_chunks(chunks, tie_break, req.trace, req.document_id,
                                     req.question, SingleLimit, outcome)
         IN /\ req' = IF g.raised THEN raised(req, g.trace, g.detail)
                      ELSE [req EXCEPT !.pc = "complete", !.trace = g.trace,
                                       !.similar_chunks = g.rows]
            /\ chunks' = chunks \ {g.rows[i] : i \in 1..Min(1, Len(g.rows))}
    /\ UNCHANGED <<api_key, tie_break, files, tasks, key_faults, last, probe>>

single_retrieve_rejects_empty ==
    /\ req.app = "single" /\ req.pc = "retrieve"
    /\ \E outcome \in Outcomes :
         LET g == get_similar_chunks(chunks, tie_break, req.trace, req.document_id,
                                     req.question, SingleLimit, outcome)
         IN req' = IF g.raised THEN raised(req, g.trace, g.detail)
                   ELSE IF g.rows = <<>> THEN raised(req, g.trace, "no chunks found")
                   ELSE [req EXCEPT !.pc = "complete", !.trace = g.trace,
                                    !.similar_chunks = g.rows]
    /\ UnchangedByAsk

\* similar_chunks = await get_similar_chunks(request.document_id, request.question, db)
single_retrieve ==
    /\ req.app = "single" /\ req.pc = "retrieve"
    /\ \E outcome \in Outcomes :
         LET g == get_similar_chunks(chunks, tie_break, req.trace, req.document_id,
                                     req.question, SingleLimit, outcome)
         IN req' = IF g.raised THEN raised(req, g.trace, g.detail)
                   ELSE [req EXCEPT !.pc = "complete", !.trace = g.trace,
                                    !.similar_chunks = g.rows]
    /\ UnchangedByAsk

\* context, system_message, client.chat.completions.create(...), return
single_complete ==
    /\ req.app = "single" /\ req.pc = "complete"
    /\ \E ok \in BOOLEAN :
         LET system == system_message(context_of(req.similar_chunks))
             trace  == Append(req.trace,
                              Call("complete", PrimaryModel, 0, ok, system, req.question, <<>>,
                                   IF ok THEN completion(PrimaryModel, system, req.question)
                                   ELSE <<>>))
             answer == completion(PrimaryModel, system, req.question)
         IN req' = IF ok
                   THEN [req EXCEPT !.pc = "done", !.trace = trace, !.status = "ok",
                                    !.final_response = answer, !.response = answer]
                   ELSE raised(req, trace, CompletionError)
    /\ UnchangedByAsk

(* src/main_ensemble.py                                                    *)

\* similar_chunks = await get_similar_chunks(document_id, question, db)
ensemble_retrieve ==
    /\ req.app = "ensemble" /\ req.pc = "retrieve"
    /\ \E outcome \in Outcomes :
         LET g == get_similar_chunks(chunks, tie_break, req.trace, req.document_id,
                                     req.question, DefaultLimit, outcome)
         IN req' = IF g.raised THEN raised(req, g.trace, g.detail)
                   ELSE [req EXCEPT !.pc = "second_retrieve", !.trace = g.trace,
                                    !.similar_chunks = g.rows]
    /\ UnchangedByAsk

\* second_similar_chunks = await get_similar_chunks(..., limit=10)
ensemble_second_retrieve ==
    /\ req.app = "ensemble" /\ req.pc = "second_retrieve"
    /\ \E outcome \in Outcomes :
         LET g == get_similar_chunks(chunks, tie_break, req.trace, req.document_id,
                                     req.question, SecondLimit, outcome)
         IN req' = IF g.raised THEN raised(req, g.trace, g.detail)
                   ELSE [req EXCEPT !.pc = "primary", !.trace = g.trace,
                                    !.second_similar_chunks = g.rows]
    /\ UnchangedByAsk

\* context, second_context, both system messages, then primary_response
primary_draft ==
    /\ req.app = "ensemble" /\ req.pc = "primary"
    /\ \E ok \in BOOLEAN :
         LET system == system_message(context_of(req.similar_chunks))
             trace  == Append(req.trace,
                              Call("complete", PrimaryModel, 0, ok, system, req.question, <<>>,
                                   IF ok THEN completion(PrimaryModel, system, req.question)
                                   ELSE <<>>))
         IN req' = IF ok
                   THEN [req EXCEPT !.pc = "secondary", !.trace = trace,
                             !.primary_response =
                                 completion(PrimaryModel, system, req.question)]
                   ELSE raised(req, trace, CompletionError)
    /\ UnchangedByAsk

secondary_draft_degraded ==
    /\ req.app = "ensemble" /\ req.pc = "secondary"
    /\ \E ok \in BOOLEAN :
         LET system == system_message(context_of(req.second_similar_chunks))
             trace  == Append(req.trace,
                              Call("complete", SecondaryModel, 0, ok, system, req.question, <<>>,
                                   IF ok THEN completion(SecondaryModel, system, req.question)
                                   ELSE <<>>))
         IN req' = [req EXCEPT !.pc = "fusion", !.trace = trace,
                        !.secondary_response =
                            IF ok THEN completion(SecondaryModel, system, req.question)
                            ELSE <<>>]
    /\ UnchangedByAsk

\* secondary_response
secondary_draft ==
    /\ req.app = "ensemble" /\ req.pc = "secondary"
    /\ \E ok \in BOOLEAN :
         LET system == system_message(context_of(req.second_similar_chunks))
             trace  == Append(req.trace,
                              Call("complete", SecondaryModel, 0, ok, system, req.question, <<>>,
                                   IF ok THEN completion(SecondaryModel, system, req.question)
                                   ELSE <<>>))
         IN req' = IF ok
                   THEN [req EXCEPT !.pc = "fusion", !.trace = trace,
                             !.secondary_response =
                                 completion(SecondaryModel, system, req.question)]
                   ELSE raised(req, trace, CompletionError)
    /\ UnchangedByAsk

ensemble_result_primary(r) == r.primary_response

\* return {"response": final_response.choices[0].message.content}
ensemble_result(r) == r.final_response

\* final_system_message, final_response, return
fusion ==
    /\ req.app = "ensemble" /\ req.pc = "fusion"
    /\ \E ok \in BOOLEAN :
         LET system == final_system_message(context_of(req.similar_chunks),
                                            context_of(req.second_similar_chunks),
                                            req.primary_response,
                                            req.secondary_response)
             trace  == Append(req.trace,
                              Call("complete", FusionModel, 0, ok, system, req.question, <<>>,
                                   IF ok THEN completion(FusionModel, system, req.question)
                                   ELSE <<>>))
             answered == [req EXCEPT !.trace = trace, !.final_response =
                              completion(FusionModel, system, req.question)]
         IN req' = IF ok
                   THEN [answered EXCEPT !.pc = "done", !.status = "ok",
                                         !.response = ensemble_result(answered)]
                   ELSE raised(req, trace, CompletionError)
    /\ UnchangedByAsk

\* the HTTP response leaves; the handler's locals are gone
respond ==
    /\ req.pc = "done"
    /\ last' = IF req.status = "ok" /\ req.start_chunks = chunks
               THEN [app |-> req.app, document_id |-> req.document_id,
                     question |-> req.question, response |-> req.response]
               ELSE last
    /\ req' = IdleReq
    /\ UNCHANGED <<api_key, tie_break, files, tasks, chunks, key_faults, probe>>

----------------------------------------------------------------------------
(* The service                                                             *)

NoProbe == [file_id |-> 0, q |-> <<0, 0>>, limit |-> 0, rows |-> <<>>]

Init ==
    /\ api_key \in BOOLEAN
    /\ tie_break \in TieBreaks
    /\ files = <<>>
    /\ tasks = {}
    /\ chunks = {}
    /\ req = IdleReq
    /\ key_faults = 0
    /\ last = NoLast
    /\ probe = NoProbe

Apps == {"single", "ensemble"}

Next ==
    \/ \E file \in UploadFiles : upload_file(file)
    \/ \E file_id \in Documents : chunk_and_embed(file_id)
    \/ \E app \in Apps, d \in Documents, q \in Questions : ask_question(app, d, q)
    \/ single_retrieve
    \/ single_complete
    \/ ensemble_retrieve
    \/ ensemble_second_retrieve
    \/ primary_draft
    \/ secondary_draft
    \/ fusion
    \/ respond

Spec == Init /\ [][Next]_vars

----------------------------------------------------------------------------
(* The store query on its own, over arbitrary tables                       *)

ProbeVectors == {<<x, y>> : x \in 0..MaxCoord, y \in 0..1}

ProbeQueryVectors == {<<0, 0>>, <<MaxCoord, 1>>}

ProbeTables ==
    UNION { { { [chunk_id |-> i, file_id |-> f[i][1],
                 chunk_text |-> << <<"fragment", ToString(i)>> >>,
                 embedding_vector |-> f[i][2]] : i \in 1..n }
              : f \in [1..n -> (1..2) \X ProbeVectors] }
            : n \in 0..ProbeMaxChunks }

InitRetrieval ==
    /\ api_key = TRUE
    /\ tie_break \in TieBreaks
    /\ files = <<>>
    /\ tasks = {}
    /\ chunks \in ProbeTables
    /\ req = IdleReq
    /\ key_faults = 0
    /\ last = NoLast
    /\ probe = NoProbe

\* the query of get_similar_chunks for a given question vector and limit
nearest_fragments(file_id, q, limit) ==
    /\ probe = NoProbe
    /\ probe' = [file_id |-> file_id, q |-> q, limit |-> limit,
                 rows |-> similar_chunks_query(chunks, file_id, q, limit, tie_break)]
    /\ UNCHANGED <<api_key, tie_break, files, tasks, chunks, req,
                   key_faults, last>>

NextRetrieval ==
    \E file_id \in 1..2, q \in ProbeQueryVectors, limit \in 1..ProbeMaxLimit :
        nearest_fragments(file_id, q, limit)

SpecRetrieval == InitRetrieval /\ [][NextRetrieval]_vars

----------------------------------------------------------------------------
(* Vocabulary of the properties                                            *)

Range(seq) == {seq[i] : i \in 1..Len(seq)}

DocRows(table, file_id) == {c \in table : c.file_id = file_id}

Distance(c, q) == l2_distance(c.embedding_vector, q)

\* rows are the n nearest members of S to q (all of S when S is smaller),
\* nearest first, none twice
IsNearest(rows, S, q, n) ==
    /\ Len(rows) = Min(n, Cardinality(S))
    /\ \A i \in 1..Len(rows) : rows[i] \in S
    /\ \A i, j \in 1..Len(rows) : i < j =>
          /\ rows[i] # rows[j]
          /\ Distance(rows[i], q) <= Distance(rows[j], q)
    /\ \A c \in S \ Range(rows) :
          \A i \in 1..Len(rows) : Distance(rows[i], q) <= Distance(c, q)

\* text is the chunk texts of rows, in order, one space between neighbours
IsSpaceJoined(text, rows) ==
    /\ Len(text) = IF rows = <<>> THEN 0 ELSE 2 * Len(rows) - 1
    /\ \A i \in 1..Len(rows) : <<text[2 * i - 1]>> = rows[i].chunk_text
    /\ \A i \in 1..(Len(rows) - 1) : text[2 * i] = <<" ">>

\* the context a system message of the form SystemPrefix + context carries
ContextIn(system) == SubSeq(system, Len(SystemPrefix) + 1, Len(system))

IsCompletion(c) == c.op = "complete"
IsFusion(c) == c.op = "complete" /\ c.model = FusionModel
IsDraft(c) == c.op = "complete" /\ c.model \in {PrimaryModel, SecondaryModel}
IsRetrievalCall(c) == c.op \in {"embed", "query"}

Ensemble == req.app = "ensemble"
Single == req.app = "single"
Answered == req.pc = "done" /\ req.status = "ok"
FailedWithoutAnswer ==
    req.pc = "done" /\ req.status = "error" /\ req.response = <<>>

\* the store has not changed since the request in hand began
StoreUnchanged == req.start_chunks = chunks

----------------------------------------------------------------------------
(* Properties                                                              *)

\* C1: an ensemble request in which a drafting call (primary or secondary)
\* failed has ended in failure with no answer, and made no fusion call.
EnsembleAllOrNothing ==
    (Ensemble /\ \E i \in 1..Len(req.trace) :
                    IsDraft(req.trace[i]) /\ ~req.trace[i].ok)
    => /\ FailedWithoutAnswer
       /\ \A i \in 1..Len(req.trace) : ~IsFusion(req.trace[i])

\* C1 happens: the primary draft succeeded and the secondary draft failed
SecondaryDraftFailed ==
    /\ Ensemble
    /\ Len(req.trace) = 6
    /\ req.trace[5].ok
    /\ req.trace[6].model = SecondaryModel /\ ~req.trace[6].ok

\* C2: an ensemble request that returned an answer made, in this order and
\* all successfully, the retrieval with limit 5, the retrieval with limit 10,
\* the primary draft, the secondary draft and the fusion call, nothing else;
\* the answer is what the fusion call returned, not one of the two drafts.
EnsembleStagesInOrder ==
    (Ensemble /\ Answered) =>
       LET t == req.trace
       IN /\ Len(t) = 7
          /\ \A i \in 1..7 : t[i].ok
          /\ t[1].op = "embed" /\ t[2].op = "query" /\ t[2].limit = 5
          /\ t[3].op = "embed" /\ t[4].op = "query" /\ t[4].limit = 10
          /\ IsCompletion(t[5]) /\ t[5].model = PrimaryModel
          /\ IsCompletion(t[6]) /\ t[6].model = SecondaryModel
          /\ IsFusion(t[7])
          /\ Len(SelectSeq(t, IsCompletion)) = 3
          /\ req.response = t[7].result
          /\ req.response # t[5].result
          /\ req.response # t[6].result

\* C2 happens: an answer over a document long enough for both limits to cut
EnsembleAnsweredLongDocument ==
    /\ Ensemble /\ Answered
    /\ Len(req.trace[2].rows) = 5
    /\ Len(req.trace[4].rows) = 10

\* C3: for limit >= 1 the query returns the min(limit, m) rows of the file
\* nearest to the query vector, nearest first; no row of another file, no
\* padding, and a file with fewer rows than the limit gives all its rows.
NearestFragmentsReturned ==
    probe.limit >= 1 =>
        IsNearest(probe.rows, DocRows(chunks, probe.file_id), probe.q, probe.limit)

\* C3 happens: the file has more rows than the limit, and a row of another
\* file lies nearer to the query vector than every row returned
QueryCutAndFiltered ==
    /\ probe.limit >= 1
    /\ Cardinality(DocRows(chunks, probe.file_id)) > probe.limit
    /\ \E c \in chunks :
          /\ c.file_id # probe.file_id
          /\ Distance(c, probe.q) < Distance(probe.rows[1], probe.q)

D1Texts == {D1Fragments[i].chunk_text : i \in 1..Len(D1Fragments)}

\* the request in hand asks Q1 of a document made of F1, F2, F3
AsksCatsOfD1 ==
    /\ req.question = Q1
    /\ StoreUnchanged
    /\ {c.chunk_text : c \in DocRows(chunks, req.document_id)} = D1Texts

\* C4 as stated: with three fragments F1, F2, F3 at increasing distance the
\* single-model ask retrieves [F1, F2] and its context is F1, a space, F2.
SingleAskRetrievesTwo ==
    (Single /\ Len(req.trace) = 3 /\ AsksCatsOfD1) =>
        /\ chunk_texts(req.trace[2].rows) =
               <<Lit("cats are mammals"), Lit("dogs are loyal")>>
        /\ ContextIn(req.trace[3].system) =
               Lit("cats are mammals") \o Lit(" ") \o Lit("dogs are loyal")

\* C4, amended: the single-model ask has no result count of its own; it
\* retrieves the min(10, m) nearest fragments of the document, puts their
\* texts in retrieval order with single spaces between them, and makes one
\* completion call with that context after the system prefix and the question
\* as user message; over F1, F2, F3 it retrieves [F1, F2, F3].
SingleAskUsesTenNearest ==
    (Single /\ Len(req.trace) = 3) =>
       LET query == req.trace[2]
           call  == req.trace[3]
       IN /\ query.op = "query" /\ query.limit = 10
          /\ StoreUnchanged =>
                IsNearest(query.rows, DocRows(chunks, req.document_id),
                          question_embedding(req.question), 10)
          /\ IsCompletion(call)
          /\ Len(SelectSeq(req.trace, IsCompletion)) = 1
          /\ IsPrefix(SystemPrefix, call.system)
          /\ IsSpaceJoined(ContextIn(call.system), query.rows)
          /\ call.user = req.question
          /\ AsksCatsOfD1 =>
                /\ chunk_texts(query.rows) =
                       <<Lit("cats are mammals"), Lit("dogs are loyal"),
                         Lit("fish swim")>>
                /\ ContextIn(call.system) =
                       Lit("cats are mammals") \o Lit(" ") \o Lit("dogs are loyal")
                           \o Lit(" ") \o Lit("fish swim")

\* C4 happens: Q1 asked of the three-fragment document and answered
SingleAnsweredCats == Single /\ Answered /\ AsksCatsOfD1

\* C5: a single-model ask of a document whose background step has not run
\* (no fragments yet) gets an empty retrieval result, goes on to the
\* completion call with the empty context, fails only if the credential is
\* missing or a gateway or the store fails, and returns the completion's
\* answer.
EmptyDocumentStillAnswered ==
    (Single /\ req.document_id \in tasks) =>
       LET t == req.trace
       IN /\ \A i \in 1..Len(t) : (t[i].op = "query" /\ t[i].ok) => t[i].rows = <<>>
          /\ (Len(t) = 2 /\ t[2].ok) => (req.pc = "complete" /\ req.status = "running")
          /\ req.status = "error" =>
                (req.detail = KeyNotSet \/ (t # <<>> /\ ~t[Len(t)].ok))
          /\ \A i \in 1..Len(t) : IsCompletion(t[i]) =>
                /\ ContextIn(t[i].system) = <<>>
                /\ t[i].system = SystemPrefix
                /\ t[i].ok => /\ Answered
                              /\ req.response = t[i].result
                              /\ req.response # <<>>

\* C5 happens: an answer for a document still waiting for its fragments
AnsweredBeforeFragments ==
    Single /\ req.document_id \in tasks /\ Answered /\ req.similar_chunks = <<>>

\* C6: the system message of the fusion call contains the limit-5 context,
\* the limit-10 context, the primary model's answer and the secondary
\* model's answer, each verbatim, and its user message is the question.
FusionInputComplete ==
    Ensemble =>
       \A i \in 1..Len(req.trace) : IsFusion(req.trace[i]) =>
          LET t == req.trace
          IN /\ Contains(t[i].system, context_of(t[2].rows))
             /\ Contains(t[i].system, context_of(t[4].rows))
             /\ Contains(t[i].system, t[5].result)
             /\ Contains(t[i].system, t[6].result)
             /\ t[5].result # <<>> /\ t[6].result # <<>>
             /\ t[5].system = system_message(context_of(t[2].rows))
             /\ t[6].system = system_message(context_of(t[4].rows))
             /\ t[i].user = req.question

\* C6 happens: a fusion call over two different, non-empty contexts
FusionOverTwoContexts ==
    /\ Ensemble
    /\ Len(req.trace) = 7
    /\ req.trace[2].rows # <<>>
    /\ req.trace[2].rows # req.trace[4].rows

\* C7: a failed embedding call or store query is the last call of its
\* request: the request has failed without an answer, nothing was retried
\* (one embedding call per retrieval, none after the failure) and no
\* completion call was made.
RetrievalFailureIsFinal ==
    LET t == req.trace
    IN /\ \A i \in 1..Len(t) : (IsRetrievalCall(t[i]) /\ ~t[i].ok) =>
             /\ i = Len(t)
             /\ FailedWithoutAnswer
             /\ \A j \in 1..Len(t) : ~IsCompletion(t[j])
       /\ \A i \in 1..(Len(t) - 1) : ~(t[i].op = "embed" /\ t[i + 1].op = "embed")
       /\ Len(SelectSeq(t, LAMBDA c : c.op = "embed"))
             <= IF Ensemble THEN 2 ELSE 1

\* C7 happens: the store query of the second retrieval pass failed
SecondQueryFailed ==
    /\ Ensemble
    /\ Len(req.trace) = 4
    /\ req.trace[4].op = "query" /\ ~req.trace[4].ok

\* C8 as stated: the missing credential is detected once, not per request.
CredentialDetectedOnce == ~api_key => key_faults <= 1

\* C8, amended: the credential is checked at the start of every ask request;
\* while it is absent every ask request fails there, with "NEBIUS API key
\* not set", and makes no embedding call, store query or completion call.
CredentialCheckedPerRequest ==
    /\ api_key => key_faults = 0
    /\ ~api_key =>
          /\ req.trace = <<>>
          /\ last = NoLast
          /\ req.pc # "idle" => (FailedWithoutAnswer /\ req.detail = KeyNotSet)

\* C8 happens: two requests were refused for the missing credential
TwoRequestsRefused == ~api_key /\ key_faults = 2

\* C9, first half: an answer equals the answer last given for the same
\* document and question by the same service over the same store contents.
SameAnswerAsBefore ==
    (Answered /\ StoreUnchanged /\ last.app = req.app
        /\ last.document_id = req.document_id /\ last.question = req.question)
    => req.response = last.response

\* C9, second half: no step of an ask request changes the tables, the task
\* queue or the configuration.
AskReadsOnly ==
    [][req' # req => UNCHANGED <<api_key, tie_break, files, tasks, chunks>>]_vars

\* C9: ask is idempotent: the same request over an unchanged store gets the
\* same answer, and an ask request changes nothing a later request can see.
AskIdempotent == []SameAnswerAsBefore /\ AskReadsOnly

\* C9 happens: the same question answered twice over a non-empty result
AnsweredTwice ==
    /\ Answered /\ StoreUnchanged
    /\ last.app = req.app /\ last.document_id = req.document_id
    /\ last.question = req.question
    /\ req.similar_chunks # <<>>

\* C10: in an ensemble request the rows of the limit-5 retrieval are a
\* prefix of the rows of the limit-10 retrieval, and the context of the
\* primary draft is a prefix of the context of the secondary draft.
FirstPassIsPrefixOfSecond ==
    Ensemble =>
       LET t == req.trace
       IN /\ (Len(t) >= 4 /\ t[4].ok) => IsPrefix(t[2].rows, t[4].rows)
          /\ Len(t) >= 6 =>
                IsPrefix(ContextIn(t[5].system), ContextIn(t[6].system))

\* C10 happens: both limits cut, and the fifth and sixth rows are at the
\* same distance from the question
BothPassesCutAtATie ==
    /\ Ensemble
    /\ Len(req.trace) >= 6
    /\ Len(req.trace[2].rows) = 5
    /\ Len(req.trace[4].rows) = 10
    /\ Distance(req.trace[4].rows[5], question_embedding(req.question))
          = Distance(req.trace[4].rows[6], question_embedding(req.question))

====
